---- MODULE Spec2Model ----
(***************************************************************************)
(* MessageU server (arielchook/dpmmn15): the wire codec of                 *)
(* protocol_structs.py, the SQLite store of data_manager.py, the request   *)
(* dispatcher of request_handler.py and the selector loop of server.py.    *)
(* Byte strings are sequences of numbers 0..255; a Python str that was     *)
(* decoded from ASCII is the sequence of its code points.                  *)
(***************************************************************************)
EXTENDS Integers, Sequences, FiniteSets, TLC

\* ------------------------------------------------------------------------
\* Bounds of the model
\* ------------------------------------------------------------------------
MaxClients == 2     \* size of the pool of 16-byte ids that occur at all
MaxMsgId == 2       \* SendMessage is accepted while sqlite_sequence < MaxMsgId
MaxTime == 1        \* the wall clock runs over 0..MaxTime
MaxConns == 2       \* client connections 1..MaxConns
MaxContent == 2     \* the contents packed by the codec alone have 0..MaxContent bytes
MaxFrames == 2      \* requests a client writes to a connection followed byte by byte
MaxRecords == 2     \* pulled-message records in a buffer given to the stream decoder

\* ------------------------------------------------------------------------
\* protocol_structs.py: constants and codes
\* ------------------------------------------------------------------------
CLIENT_ID_SIZE == 16
USERNAME_SIZE == 255
PUBLIC_KEY_SIZE == 160

REGISTER == 1100
CLIENTS_LIST == 1101
PUBLIC_KEY == 1102
SEND_MESSAGE == 1103
PULL_MESSAGES == 1104

RequestCodes == {REGISTER, CLIENTS_LIST, PUBLIC_KEY, SEND_MESSAGE, PULL_MESSAGES}

RESP_REGISTRATION_SUCCESS == 2100
RESP_CLIENTS_LIST == 2101
RESP_PUBLIC_KEY == 2102
RESP_MESSAGE_SENT == 2103
RESP_PULL_MESSAGES == 2104
RESP_ERROR == 9000

SYM_KEY_REQUEST == 1
TEXT_MESSAGE == 3

SERVER_VERSION == 2

\* ------------------------------------------------------------------------
\* struct.pack / struct.unpack, little-endian ('<'), formats s, B, H, I
\* ------------------------------------------------------------------------
Zeros(n) == [i \in 1..n |-> 0]

\* (mutant) format '>': most significant byte first
PackInt_big_endian(n, w) == [i \in 1..w |-> (n \div (256 ^ (w - i))) % 256]

\* an unsigned integer of w bytes, least significant byte first
PackInt(n, w) == [i \in 1..w |-> (n \div (256 ^ (i - 1))) % 256]

RECURSIVE UnpackInt(_)
UnpackInt(b) == IF b = <<>> THEN 0 ELSE b[1] + 256 * UnpackInt(Tail(b))

\* format 'ns': the bytes, cut to n or padded with null bytes to n
PackStr(s, n) == IF Len(s) >= n THEN SubSeq(s, 1, n) ELSE s \o Zeros(n - Len(s))

\* struct.pack raises struct.error for an integer outside the field's range
FitsInt(n, w) == n >= 0 /\ (w >= 4 \/ n < 256 ^ w)

RequestHeader_size == CLIENT_ID_SIZE + 1 + 2 + 4
RegistrationRequestPayload_size == USERNAME_SIZE + PUBLIC_KEY_SIZE
PublicKeyRequestPayload_size == CLIENT_ID_SIZE
SendMessageRequestPayloadHeader_size == CLIENT_ID_SIZE + 1 + 4
ResponseHeader_size == 1 + 2 + 4
RegistrationSuccessPayload_size == CLIENT_ID_SIZE
ClientInfo_size == CLIENT_ID_SIZE + USERNAME_SIZE
PublicKeyResponsePayload_size == CLIENT_ID_SIZE + PUBLIC_KEY_SIZE
MessageSentResponsePayload_size == CLIENT_ID_SIZE + 4
PulledMessage_header_size == CLIENT_ID_SIZE + 4 + 1 + 4

\* StructBase.unpack raises struct.error unless the buffer has the exact size
CanUnpack(size, buffer) == Len(buffer) = size

RequestHeader_pack(client_id, version, code, payload_size) ==
    PackStr(client_id, CLIENT_ID_SIZE) \o PackInt(version, 1)
        \o PackInt(code, 2) \o PackInt(payload_size, 4)

RequestHeader_unpack(buffer) ==
    [client_id |-> SubSeq(buffer, 1, CLIENT_ID_SIZE),
     version |-> UnpackInt(SubSeq(buffer, CLIENT_ID_SIZE + 1, CLIENT_ID_SIZE + 1)),
     code |-> UnpackInt(SubSeq(buffer, CLIENT_ID_SIZE + 2, CLIENT_ID_SIZE + 3)),
     payload_size |-> UnpackInt(SubSeq(buffer, CLIENT_ID_SIZE + 4, CLIENT_ID_SIZE + 7))]

RegistrationRequestPayload_pack(name, public_key) ==
    PackStr(name, USERNAME_SIZE) \o PackStr(public_key, PUBLIC_KEY_SIZE)

RegistrationRequestPayload_unpack(buffer) ==
    [name |-> SubSeq(buffer, 1, USERNAME_SIZE),
     public_key |-> SubSeq(buffer, USERNAME_SIZE + 1, USERNAME_SIZE + PUBLIC_KEY_SIZE)]

PublicKeyRequestPayload_pack(client_id) == PackStr(client_id, CLIENT_ID_SIZE)

PublicKeyRequestPayload_unpack(buffer) ==
    [client_id |-> SubSeq(buffer, 1, CLIENT_ID_SIZE)]

SendMessageRequestPayloadHeader_pack(client_id, message_type, content_size) ==
    PackStr(client_id, CLIENT_ID_SIZE) \o PackInt(message_type, 1)
        \o PackInt(content_size, 4)

SendMessageRequestPayloadHeader_unpack(buffer) ==
    [client_id |-> SubSeq(buffer, 1, CLIENT_ID_SIZE),
     message_type |-> UnpackInt(SubSeq(buffer, CLIENT_ID_SIZE + 1, CLIENT_ID_SIZE + 1)),
     content_size |-> UnpackInt(SubSeq(buffer, CLIENT_ID_SIZE + 2, CLIENT_ID_SIZE + 5))]

\* (mutant) the length field is left at zero
ResponseHeader_pack_no_length(version, code, payload_size) ==
    PackInt(version, 1) \o PackInt(code, 2) \o PackInt(0, 4)

ResponseHeader_pack(version, code, payload_size) ==
    PackInt(version, 1) \o PackInt(code, 2) \o PackInt(payload_size, 4)

ResponseHeader_unpack(buffer) ==
    [version |-> UnpackInt(SubSeq(buffer, 1, 1)),
     code |-> UnpackInt(SubSeq(buffer, 2, 3)),
     payload_size |-> UnpackInt(SubSeq(buffer, 4, 7))]

RegistrationSuccessPayload_pack(client_id) == PackStr(client_id, CLIENT_ID_SIZE)

RegistrationSuccessPayload_unpack(buffer) ==
    [client_id |-> SubSeq(buffer, 1, CLIENT_ID_SIZE)]

ClientInfo_pack(client_id, name) ==
    PackStr(client_id, CLIENT_ID_SIZE) \o PackStr(name, USERNAME_SIZE)

ClientInfo_unpack(buffer) ==
    [client_id |-> SubSeq(buffer, 1, CLIENT_ID_SIZE),
     name |-> SubSeq(buffer, CLIENT_ID_SIZE + 1, CLIENT_ID_SIZE + USERNAME_SIZE)]

PublicKeyResponsePayload_pack(client_id, public_key) ==
    PackStr(client_id, CLIENT_ID_SIZE) \o PackStr(public_key, PUBLIC_KEY_SIZE)

PublicKeyResponsePayload_unpack(buffer) ==
    [client_id |-> SubSeq(buffer, 1, CLIENT_ID_SIZE),
     public_key |-> SubSeq(buffer, CLIENT_ID_SIZE + 1, CLIENT_ID_SIZE + PUBLIC_KEY_SIZE)]

MessageSentResponsePayload_pack(client_id, message_id) ==
    PackStr(client_id, CLIENT_ID_SIZE) \o PackInt(message_id, 4)

MessageSentResponsePayload_unpack(buffer) ==
    [client_id |-> SubSeq(buffer, 1, CLIENT_ID_SIZE),
     message_id |-> UnpackInt(SubSeq(buffer, CLIENT_ID_SIZE + 1, CLIENT_ID_SIZE + 4))]

\* PulledMessage.pack: the fixed header, then the content as it is
PulledMessage_pack(from_client_id, msg_id, msg_type, msg_size, content) ==
    PackStr(from_client_id, CLIENT_ID_SIZE) \o PackInt(msg_id, 4)
        \o PackInt(msg_type, 1) \o PackInt(msg_size, 4) \o content

\* PulledMessage.unpack_stream: struct.unpack fails on a header slice shorter
\* than the header; the content slice is whatever is left, up to msg_size.
PulledMessage_stream_ok_from(buffer, offset) ==
    Len(buffer) - offset >= PulledMessage_header_size

RECURSIVE PulledMessage_unpack_stream_ok(_, _)
PulledMessage_unpack_stream_ok(buffer, offset) ==
    IF offset >= Len(buffer) THEN TRUE
    ELSE IF ~PulledMessage_stream_ok_from(buffer, offset) THEN FALSE
    ELSE LET msg_size == UnpackInt(SubSeq(buffer, offset + CLIENT_ID_SIZE + 6,
                                          offset + CLIENT_ID_SIZE + 9))
         IN  PulledMessage_unpack_stream_ok(buffer,
                 offset + PulledMessage_header_size + msg_size)

Min(a, b) == IF a < b THEN a ELSE b

RECURSIVE PulledMessage_unpack_stream_from(_, _)
PulledMessage_unpack_stream_from(buffer, offset) ==
    IF offset >= Len(buffer) THEN <<>>
    ELSE LET from_client_id == SubSeq(buffer, offset + 1, offset + CLIENT_ID_SIZE)
             msg_id == UnpackInt(SubSeq(buffer, offset + CLIENT_ID_SIZE + 1,
                                        offset + CLIENT_ID_SIZE + 4))
             msg_type == UnpackInt(SubSeq(buffer, offset + CLIENT_ID_SIZE + 5,
                                          offset + CLIENT_ID_SIZE + 5))
             msg_size == UnpackInt(SubSeq(buffer, offset + CLIENT_ID_SIZE + 6,
                                          offset + CLIENT_ID_SIZE + 9))
             start == offset + PulledMessage_header_size
             content == SubSeq(buffer, start + 1, Min(start + msg_size, Len(buffer)))
         IN  <<[from_client_id |-> from_client_id, msg_id |-> msg_id,
                msg_type |-> msg_type, msg_size |-> msg_size, content |-> content]>>
             \o PulledMessage_unpack_stream_from(buffer, start + msg_size)

PulledMessage_unpack_stream(buffer) == PulledMessage_unpack_stream_from(buffer, 0)

\* ------------------------------------------------------------------------
\* data_manager.py: the SQLite store.  db = [clients, messages, seq]:
\* the rows of table clients and of table messages in rowid order, and the
\* AUTOINCREMENT counter of table messages (its sqlite_sequence row).
\* ------------------------------------------------------------------------
EmptyDb == [clients |-> <<>>, messages |-> <<>>, seq |-> 0]

Range(s) == {s[i] : i \in DOMAIN s}

\* SELECT distinct 1 FROM clients WHERE UserName = ?
username_exists(db, username) ==
    \E i \in DOMAIN db.clients : db.clients[i].UserName = username

\* (mutant) SELECT distinct 1 FROM clients
client_id_exists_some(db, client_id) == db.clients # <<>>

\* (mutant) the existence check always succeeds
client_id_exists_any(db, client_id) == TRUE

\* SELECT distinct 1 FROM clients WHERE ID = ?
client_id_exists(db, client_id) ==
    \E i \in DOMAIN db.clients : db.clients[i].ID = client_id

\* (mutant) a clients table without PRIMARY KEY and UNIQUE
clients_constraints_none(db, client_id, username) == TRUE

\* ID BLOB(16) PRIMARY KEY, UserName ... UNIQUE: the INSERT of add_client
\* raises sqlite3.IntegrityError when either constraint would be broken.
clients_constraints_ok(db, client_id, username) ==
    \A i \in DOMAIN db.clients :
        db.clients[i].ID # client_id /\ db.clients[i].UserName # username

\* INSERT INTO clients (ID, UserName, PublicKey, LastSeen) VALUES (?,?,?,now)
add_client(db, now_, client_id, username, public_key) ==
    [db EXCEPT !.clients = Append(@, [ID |-> client_id, UserName |-> username,
                                       PublicKey |-> public_key, LastSeen |-> now_])]

\* (mutant) SELECT ID, UserName FROM clients
get_clients_all(db, exclude_id) ==
    [i \in DOMAIN db.clients |->
        [ID |-> db.clients[i].ID, UserName |-> db.clients[i].UserName]]

\* SELECT ID, UserName FROM clients WHERE ID != ?
get_clients(db, exclude_id) ==
    LET Keep(c) == c.ID # exclude_id
        rows == SelectSeq(db.clients, Keep)
    IN  [i \in DOMAIN rows |-> [ID |-> rows[i].ID, UserName |-> rows[i].UserName]]

\* (mutant) SELECT * FROM clients  (fetchone: the first row of the table)
get_client_by_id_first(db, client_id) ==
    IF db.clients = <<>> THEN <<>> ELSE <<db.clients[1]>>

\* SELECT * FROM clients WHERE ID = ?  (fetchone: the rows found, none or one)
get_client_by_id(db, client_id) ==
    LET Is(c) == c.ID = client_id
    IN  SelectSeq(db.clients, Is)

\* (mutant) UPDATE clients SET LastSeen = now
update_last_seen_all(db, now_, client_id) ==
    [db EXCEPT !.clients = [i \in DOMAIN @ |-> [@[i] EXCEPT !.LastSeen = now_]]]

\* UPDATE clients SET LastSeen = now WHERE ID = ?
update_last_seen(db, now_, client_id) ==
    [db EXCEPT !.clients =
        [i \in DOMAIN @ |-> IF @[i].ID = client_id
                            THEN [@[i] EXCEPT !.LastSeen = now_] ELSE @[i]]]

\* (mutant) INTEGER PRIMARY KEY without AUTOINCREMENT: one more than the
\* largest id in the table now
add_message_id_reuse(db) ==
    IF db.messages = <<>> THEN 1
    ELSE 1 + CHOOSE n \in {db.messages[i].ID : i \in DOMAIN db.messages} :
                 \A i \in DOMAIN db.messages : db.messages[i].ID <= n

\* (mutant) the counter moves by two
add_message_id_skip(db) == db.seq + 2

\* INSERT INTO messages (...): ID INTEGER PRIMARY KEY AUTOINCREMENT takes
\* one more than the largest id the table ever held.
add_message_id(db) == db.seq + 1

add_message(db, to_client_id, from_client_id, msg_type, content) ==
    [db EXCEPT !.messages = Append(@, [ID |-> add_message_id(db),
                                        ToClient |-> to_client_id,
                                        FromClient |-> from_client_id,
                                        Type |-> msg_type, Content |-> content]),
               !.seq = add_message_id(db)]

\* (mutant) SELECT ID, FromClient, Type, Content FROM messages
get_messages_for_client_any(db, client_id) == db.messages

\* (mutant) ... WHERE ToClient = ? ORDER BY ID DESC
get_messages_for_client_desc(db, client_id) ==
    LET For(m) == m.ToClient = client_id
        rows == SelectSeq(db.messages, For)
    IN  [i \in DOMAIN rows |-> rows[Len(rows) + 1 - i]]

\* SELECT ID, FromClient, Type, Content FROM messages WHERE ToClient = ?
\* (no index on ToClient: a scan of the table in rowid order)
get_messages_for_client(db, client_id) ==
    LET For(m) == m.ToClient = client_id
    IN  SelectSeq(db.messages, For)

\* (mutant) DELETE FROM messages WHERE ID <= (the largest of the ids)
delete_messages_upto(db, message_ids) ==
    LET Keep(m) == \A id \in message_ids : m.ID > id
    IN  [db EXCEPT !.messages = SelectSeq(@, Keep)]

\* (mutant) DELETE FROM messages
delete_messages_all(db, message_ids) == [db EXCEPT !.messages = <<>>]

\* (mutant) the DELETE is never committed
delete_messages_none(db, message_ids) == db

\* DELETE FROM messages WHERE ID IN (...)
delete_messages(db, message_ids) ==
    LET Keep(m) == m.ID \notin message_ids
    IN  [db EXCEPT !.messages = SelectSeq(@, Keep)]

\* ------------------------------------------------------------------------
\* request_handler.py: the dispatcher.  Every handler maps the store and a
\* request to [resp, db]: the response bytes and the store it leaves.
\* None is the empty byte string: server.py tests "if response:".
\* ------------------------------------------------------------------------
None == <<>>

_create_error_response == ResponseHeader_pack(SERVER_VERSION, RESP_ERROR, 0)

\* (mutant) the exception is not turned into a response
Raised_uncaught(db) == [resp |-> <<>>, db |-> db]

\* the generic "except Exception" of handle_request: the store keeps what
\* was committed before the exception
Raised(db) == [resp |-> _create_error_response, db |-> db]

\* bytes.split(b'\x00', 1)[0]
RECURSIVE SplitAtNull(_)
SplitAtNull(name) ==
    IF name = <<>> \/ name[1] = 0 THEN <<>>
    ELSE <<name[1]>> \o SplitAtNull(Tail(name))

\* bytes.decode('ascii') raises UnicodeDecodeError on a byte above 127
CanDecodeAscii(b) == \A i \in DOMAIN b : b[i] < 128

_handle_registration(db, now_, header, payload, client_id) ==
    IF ~CanUnpack(RegistrationRequestPayload_size, payload) THEN Raised(db)
    ELSE LET req == RegistrationRequestPayload_unpack(payload)
             name == SplitAtNull(req.name)
         IN  IF ~CanDecodeAscii(name) THEN Raised(db)
             ELSE IF username_exists(db, name)
                  THEN [resp |-> _create_error_response, db |-> db]
             ELSE IF ~clients_constraints_ok(db, client_id, name) THEN Raised(db)
             ELSE LET response_payload == RegistrationSuccessPayload_pack(client_id)
                  IN  [resp |-> ResponseHeader_pack(SERVER_VERSION,
                                    RESP_REGISTRATION_SUCCESS, Len(response_payload))
                                \o response_payload,
                       db |-> add_client(db, now_, client_id, name, req.public_key)]

RECURSIVE PackClients(_)
PackClients(clients) ==
    IF clients = <<>> THEN <<>>
    ELSE ClientInfo_pack(clients[1].ID, clients[1].UserName) \o PackClients(Tail(clients))

_handle_clients_list(db, header, payload) ==
    LET clients == get_clients(db, header.client_id)
        payload_data == PackClients(clients)
    IN  [resp |-> ResponseHeader_pack(SERVER_VERSION, RESP_CLIENTS_LIST, Len(payload_data))
                  \o payload_data,
         db |-> db]

_handle_public_key(db, header, payload) ==
    IF ~CanUnpack(PublicKeyRequestPayload_size, payload) THEN Raised(db)
    ELSE LET req == PublicKeyRequestPayload_unpack(payload)
             client == get_client_by_id(db, req.client_id)
         IN  IF client = <<>> THEN [resp |-> _create_error_response, db |-> db]
             ELSE LET response_payload ==
                          PublicKeyResponsePayload_pack(client[1].ID, client[1].PublicKey)
                  IN  [resp |-> ResponseHeader_pack(SERVER_VERSION, RESP_PUBLIC_KEY,
                                    Len(response_payload)) \o response_payload,
                       db |-> db]

\* (mutant) the content is cut to the length its header declares:
\* payload[msg_header_size : msg_header_size + req_header.content_size]
_handle_send_message_declared(db, header, payload) ==
    LET msg_header_size == SendMessageRequestPayloadHeader_size
    IN  IF Len(payload) < msg_header_size
        THEN [resp |-> _create_error_response, db |-> db]
        ELSE LET req_header == SendMessageRequestPayloadHeader_unpack(
                                   SubSeq(payload, 1, msg_header_size))
                 content == SubSeq(payload, msg_header_size + 1,
                                   Min(Len(payload),
                                       msg_header_size + req_header.content_size))
             IN  IF ~client_id_exists(db, req_header.client_id)
                 THEN [resp |-> _create_error_response, db |-> db]
                 ELSE LET message_id == add_message_id(db)
                          db2 == add_message(db, req_header.client_id, header.client_id,
                                             req_header.message_type, content)
                          response_payload ==
                              MessageSentResponsePayload_pack(req_header.client_id, message_id)
                      IN  [resp |-> ResponseHeader_pack(SERVER_VERSION,
                                        RESP_MESSAGE_SENT, Len(response_payload))
                                    \o response_payload,
                           db |-> db2]

_handle_send_message(db, header, payload) ==
    LET msg_header_size == SendMessageRequestPayloadHeader_size
    IN  IF Len(payload) < msg_header_size
        THEN [resp |-> _create_error_response, db |-> db]
        ELSE LET req_header == SendMessageRequestPayloadHeader_unpack(
                                   SubSeq(payload, 1, msg_header_size))
                 content == SubSeq(payload, msg_header_size + 1, Len(payload))
             IN  IF ~client_id_exists(db, req_header.client_id)
                 THEN [resp |-> _create_error_response, db |-> db]
                 ELSE LET message_id == add_message_id(db)
                          db2 == add_message(db, req_header.client_id, header.client_id,
                                             req_header.message_type, content)
                          response_payload ==
                              MessageSentResponsePayload_pack(req_header.client_id, message_id)
                      IN  IF ~FitsInt(message_id, 4) THEN Raised(db2)
                          ELSE [resp |-> ResponseHeader_pack(SERVER_VERSION,
                                             RESP_MESSAGE_SENT, Len(response_payload))
                                         \o response_payload,
                                db |-> db2]

CanPackPulled(msg) == FitsInt(msg.ID, 4) /\ FitsInt(msg.Type, 1)

RECURSIVE PackPulled(_)
PackPulled(messages) ==
    IF messages = <<>> THEN <<>>
    ELSE PulledMessage_pack(messages[1].FromClient, messages[1].ID, messages[1].Type,
                            Len(messages[1].Content), messages[1].Content)
         \o PackPulled(Tail(messages))

\* a call the handler makes, with the message ids it is about
Call(op, ids) == [op |-> op, ids |-> ids]

\* the iterations of "for msg in messages" that run to their end: all of
\* them, or those before the first message whose pack raises
PackedCount(messages) ==
    LET bad == {i \in DOMAIN messages : ~CanPackPulled(messages[i])}
    IN  IF bad = {} THEN Len(messages)
        ELSE (CHOOSE i \in bad : \A j \in bad : i <= j) - 1

\* (mutant) the messages are deleted as soon as they are read, before the
\* payload is built, whether or not there are any
_handle_pull_messages_delete_first(db, header, payload) ==
    LET messages == get_messages_for_client(db, header.client_id)
        message_ids_to_delete == [i \in DOMAIN messages |-> messages[i].ID]
        db2 == delete_messages(db, Range(message_ids_to_delete))
        early == <<Call("get_messages_for_client", <<>>),
                   Call("delete_messages", message_ids_to_delete)>>
        encoded == [i \in 1..PackedCount(messages) |-> Call("pack", <<messages[i].ID>>)]
    IN  IF PackedCount(messages) < Len(messages)
        THEN [resp |-> _create_error_response, db |-> db2, calls |-> early \o encoded]
        ELSE LET payload_data == PackPulled(messages)
             IN  [resp |-> ResponseHeader_pack(SERVER_VERSION, RESP_PULL_MESSAGES,
                               Len(payload_data)) \o payload_data,
                  db |-> db2,
                  calls |-> early \o encoded]

\* calls: what the handler did to the messages, in program order: the
\* drain, the pack of each message, the delete
_handle_pull_messages(db, header, payload) ==
    LET messages == get_messages_for_client(db, header.client_id)
        drained == <<Call("get_messages_for_client", <<>>)>>
        encoded == [i \in 1..PackedCount(messages) |-> Call("pack", <<messages[i].ID>>)]
    IN  IF PackedCount(messages) < Len(messages)
        THEN [resp |-> _create_error_response, db |-> db, calls |-> drained \o encoded]
        ELSE LET payload_data == PackPulled(messages)
                 message_ids_to_delete == [i \in DOMAIN messages |-> messages[i].ID]
             IN  [resp |-> ResponseHeader_pack(SERVER_VERSION, RESP_PULL_MESSAGES,
                               Len(payload_data)) \o payload_data,
                  db |-> IF message_ids_to_delete # <<>>
                         THEN delete_messages(db, Range(message_ids_to_delete)) ELSE db,
                  calls |-> drained \o encoded \o
                            (IF message_ids_to_delete # <<>>
                             THEN <<Call("delete_messages", message_ids_to_delete)>>
                             ELSE <<>>)]

\* What one sock.recv gave: err is "none" (data holds the bytes; no bytes is
\* end of stream), "reset" (ConnectionResetError) or "block" (BlockingIOError
\* of the non-blocking socket: nothing has arrived).
Recv(err, data) == [err |-> err, data |-> data]

\* (mutant) LastSeen is updated for a Register request as well
Touched_always(db, now_, header) == update_last_seen(db, now_, header.client_id)

\* "Update the client's 'LastSeen' timestamp for any request other than
\* registration"
Touched(db, now_, header) ==
    IF header.code # REGISTER
    THEN update_last_seen(db, now_, header.client_id) ELSE db

Dispatch(db, now_, header, payload, client_id) ==
    LET db1 == Touched(db, now_, header)
    IN  CASE header.code = REGISTER ->
                 _handle_registration(db1, now_, header, payload, client_id)
          [] header.code = CLIENTS_LIST -> _handle_clients_list(db1, header, payload)
          [] header.code = PUBLIC_KEY -> _handle_public_key(db1, header, payload)
          [] header.code = SEND_MESSAGE -> _handle_send_message(db1, header, payload)
          [] header.code = PULL_MESSAGES -> _handle_pull_messages(db1, header, payload)
          [] OTHER -> [resp |-> _create_error_response, db |-> db1]

\* handle_request(sock): hrecv is what recv(RequestHeader.size) gives, precv
\* what recv(header.payload_size) gives when it is called, client_id the
\* value of uuid.uuid4().bytes when it is called.
handle_request(db, now_, hrecv, precv, client_id) ==
    IF hrecv.err = "reset" THEN [resp |-> None, db |-> db]
    ELSE IF hrecv.err = "block" THEN Raised(db)
    ELSE IF hrecv.data = <<>> THEN [resp |-> None, db |-> db]
    ELSE IF ~CanUnpack(RequestHeader_size, hrecv.data) THEN Raised(db)
    ELSE LET header == RequestHeader_unpack(hrecv.data)
         IN  IF header.payload_size > 0 /\ precv.err = "reset"
             THEN [resp |-> None, db |-> db]
             ELSE IF header.payload_size > 0 /\ precv.err = "block" THEN Raised(db)
             ELSE Dispatch(db, now_, header,
                           IF header.payload_size > 0 THEN precv.data ELSE <<>>,
                           client_id)

\* ------------------------------------------------------------------------
\* What the clients put on the wire
\* ------------------------------------------------------------------------
Id(n) == [i \in 1..CLIENT_ID_SIZE |-> n]
IdPool == {Id(n) : n \in 1..MaxClients}     \* the values uuid4 may give
NoId == Zeros(CLIENT_ID_SIZE)               \* sent by a client that has no id yet

Key(n) == [i \in 1..PUBLIC_KEY_SIZE |-> n]
NameA == <<97>>                             \* "a"
NameB == <<98>>                             \* "b"
NameAlias == <<97, 0, 98>>                  \* "a", a null byte, then "b"
ContentHi == <<104, 105>>                   \* b"hi"

Frame(header_data, payload) == [hrecv |-> Recv("none", header_data),
                                precv |-> Recv("none", payload)]

\* a well-formed frame: the header declares the payload that follows
Request(client_id, code, payload) ==
    Frame(RequestHeader_pack(client_id, SERVER_VERSION, code, Len(payload)), payload)

RegisterFrame(client_id, name, public_key) ==
    Request(client_id, REGISTER, RegistrationRequestPayload_pack(name, public_key))
ClientsListFrame(client_id) == Request(client_id, CLIENTS_LIST, <<>>)
PublicKeyFrame(client_id, target) ==
    Request(client_id, PUBLIC_KEY, PublicKeyRequestPayload_pack(target))
SendFrame(client_id, to, type, content) ==
    Request(client_id, SEND_MESSAGE,
            SendMessageRequestPayloadHeader_pack(to, type, Len(content)) \o content)
PullFrame(client_id) == Request(client_id, PULL_MESSAGES, <<>>)

\* the third one comes from a client that holds an id already
RegisterFrames == {RegisterFrame(NoId, NameA, Key(0)), RegisterFrame(NoId, NameB, Key(7)),
                   RegisterFrame(Id(1), NameAlias, Key(7))}

\* the sender with id 1 sends the text "hi", every other sender a
\* symmetric-key request, which has no content
SendFrames == {SendFrame(c, t, IF c = Id(1) THEN TEXT_MESSAGE ELSE SYM_KEY_REQUEST,
                         IF c = Id(1) THEN ContentHi ELSE <<>>) :
               c \in IdPool, t \in IdPool}

\* the requests of the mailbox: two clients register, send and pull
MailFrames ==
    {RegisterFrame(NoId, NameA, Key(0)), RegisterFrame(NoId, NameB, Key(7))}
    \cup SendFrames
    \cup {PullFrame(c) : c \in IdPool}

\* frames that break a layout: a cut header, payloads one byte short or long
\* of their layout, a request code that is none of the five, and a header
\* whose declared payload has not arrived when the socket is read
MalformedFrames ==
    {Frame(SubSeq(PullFrame(Id(1)).hrecv.data, 1, RequestHeader_size - 1), <<>>),
     Request(NoId, REGISTER, Zeros(RegistrationRequestPayload_size - 1)),
     Request(NoId, REGISTER,
             RegistrationRequestPayload_pack(NameB, Key(7)) \o <<0>>),
     Request(Id(1), PUBLIC_KEY, Zeros(PublicKeyRequestPayload_size - 1)),
     Request(Id(1), PUBLIC_KEY, PublicKeyRequestPayload_pack(Id(1)) \o <<0>>),
     Request(Id(1), SEND_MESSAGE, SubSeq(Id(1), 1, CLIENT_ID_SIZE) \o <<3, 0, 0, 0>>),
     Request(Id(1), PULL_MESSAGES + 1, <<>>),
     [hrecv |-> Recv("none", RequestHeader_pack(Id(1), SERVER_VERSION, PULL_MESSAGES, 4)),
      precv |-> Recv("block", <<>>)]}

\* the requests of the directory, well-formed and not
DirFrames ==
    RegisterFrames
    \cup {ClientsListFrame(c) : c \in IdPool}
    \cup {PublicKeyFrame(Id(1), t) : t \in IdPool}
    \cup {SendFrame(Id(1), Id(2), TEXT_MESSAGE, ContentHi)}
    \cup MalformedFrames

\* what a socket gives when the peer is gone: end of stream, a reset before
\* the header, a reset between header and payload
ClosingFrames ==
    {Frame(<<>>, <<>>),
     [hrecv |-> Recv("reset", <<>>), precv |-> Recv("none", <<>>)],
     [hrecv |-> Recv("none", RequestHeader_pack(Id(1), SERVER_VERSION, PULL_MESSAGES, 4)),
      precv |-> Recv("reset", <<>>)]}

\* ------------------------------------------------------------------------
\* State
\* ------------------------------------------------------------------------
VARIABLES
    db,          \* the SQLite file: [clients, messages, seq]
    now,         \* what datetime.datetime.now() gives
    registered,  \* the client connections registered with the selector
    running,     \* the loop of Server.start is running
    req,         \* the request serviced last: [conn, hrecv, precv, uuid]
    resp,        \* what handle_request returned for it (None: a disconnect)
    sent,        \* sock.sendall(resp) completed
    accepted,    \* history: per recipient, the SendMessage requests answered
                 \* with MessageSent since the recipient's last answered pull
    pulled,      \* history: the message ids some PullMessages response held
    calls,       \* what the PullMessages handler did for that request, in
                 \* program order (empty for every other request)
    codec,       \* a struct of protocol_structs.py on its way through pack
                 \* and unpack: [stage, kind, value, buffer, decoded]
    stream       \* the bytes of connection 1: [frames, flying, unread, nread,
                 \* closed], see NoStream

vars == <<db, now, registered, running, req, resp, sent, accepted, pulled, calls, codec,
          stream>>

Conns == 1..MaxConns

\* The bytes of a connection: frames, the requests its client has written,
\* each as the bytes of header and payload (history); flying, the bytes
\* written and not arrived; unread, the bytes in the receive buffer of the
\* socket; nread, how many bytes the recv calls have taken so far (history);
\* closed, the client has closed its end.
NoStream == [frames |-> <<>>, flying |-> <<>>, unread |-> <<>>, nread |-> 0,
             closed |-> FALSE]

\* no struct is being packed
NoCodec == [stage |-> "none", kind |-> "", value |-> <<>>, buffer |-> <<>>,
            decoded |-> <<>>]

NoReq == [conn |-> 0, hrecv |-> Recv("none", <<>>), precv |-> Recv("none", <<>>),
          uuid |-> NoId]

\* ---- reading a request and a response as the peer of the server does ----
ReqHeaderOk(r) == r.hrecv.err = "none" /\ Len(r.hrecv.data) = RequestHeader_size
ReqHeader(r) == RequestHeader_unpack(r.hrecv.data)
\* the header was read and so was the payload: the request reached dispatch
ReqDispatched(r) ==
    ReqHeaderOk(r) /\ (ReqHeader(r).payload_size > 0 => r.precv.err = "none")
ReqPayload(r) == IF ReqHeader(r).payload_size > 0 THEN r.precv.data ELSE <<>>
ReqIs(r, code) == ReqDispatched(r) /\ ReqHeader(r).code = code

RespCode(b) == IF Len(b) >= ResponseHeader_size
               THEN ResponseHeader_unpack(SubSeq(b, 1, ResponseHeader_size)).code
               ELSE 0
RespPayload(b) == SubSeq(b, ResponseHeader_size + 1, Len(b))

\* the history variables, kept from the bytes on the wire alone
SentRecord(r, b) ==
    LET p == ReqPayload(r)
        ack == MessageSentResponsePayload_unpack(RespPayload(b))
    IN  [from_client_id |-> ReqHeader(r).client_id,
         msg_id |-> ack.message_id,
         msg_type |-> p[CLIENT_ID_SIZE + 1],
         msg_size |-> Len(p) - SendMessageRequestPayloadHeader_size,
         content |-> SubSeq(p, SendMessageRequestPayloadHeader_size + 1, Len(p))]

NextAccepted(r, b) ==
    IF ReqIs(r, SEND_MESSAGE) /\ RespCode(b) = RESP_MESSAGE_SENT
    THEN LET to == MessageSentResponsePayload_unpack(RespPayload(b)).client_id
         IN  [accepted EXCEPT ![to] = Append(@, SentRecord(r, b))]
    ELSE IF ReqIs(r, PULL_MESSAGES) /\ RespCode(b) = RESP_PULL_MESSAGES
              /\ ReqHeader(r).client_id \in DOMAIN accepted
    THEN [accepted EXCEPT ![ReqHeader(r).client_id] = <<>>]
    ELSE accepted

PulledIds(b) ==
    IF RespCode(b) = RESP_PULL_MESSAGES
    THEN LET recs == PulledMessage_unpack_stream(RespPayload(b))
         IN  {recs[i].msg_id : i \in DOMAIN recs}
    ELSE {}

\* ------------------------------------------------------------------------
\* server.py: the selector loop
\* ------------------------------------------------------------------------
Init ==
    /\ db = EmptyDb
    /\ now = 0
    /\ registered = {}
    /\ running = TRUE
    /\ req = NoReq
    /\ resp = None
    /\ sent = FALSE
    /\ accepted = [id \in IdPool |-> <<>>]
    /\ pulled = {}
    /\ calls = <<>>
    /\ codec = NoCodec
    /\ stream = NoStream

\* the clock moves on between two events
Tick ==
    /\ now < MaxTime
    /\ now' = now + 1
    /\ UNCHANGED <<db, registered, running, req, resp, sent, accepted, pulled, calls, codec,
                 stream>>

\* _accept_connection: a new connection is registered for read events
_accept_connection(c) ==
    /\ running
    /\ c \notin registered
    /\ registered' = registered \cup {c}
    /\ UNCHANGED <<db, now, running, req, resp, sent, accepted, pulled, calls, codec, stream>>

\* What _service_connection does with the connection after the handler:
\* "keep", "close" (unregister and close it) or "crash".  sock.getpeername()
\* is evaluated for the log line of the disconnect branch and again for the
\* log line of the except branch; when it raises there (peer_ok = FALSE),
\* the exception leaves _service_connection and the loop of start(), whose
\* finally clause closes the selector and the store.
ConnectionFate(response, send_ok, peer_ok) ==
    IF response # None /\ send_ok THEN "keep"
    ELSE IF peer_ok THEN "close"
    ELSE "crash"

\* _service_connection(key, mask), called by the loop of start() for a
\* readable connection c.  f is what the socket gives to the two recv calls,
\* uuid what uuid4 gives, send_ok whether sendall completes, peer_ok whether
\* getpeername still works on the socket.
_service_connection(c, f, uuid, send_ok, peer_ok) ==
    \E r \in {handle_request(db, now, f.hrecv, f.precv, uuid)} :
    LET fate == ConnectionFate(r.resp, send_ok, peer_ok)
        q == [conn |-> c, hrecv |-> f.hrecv, precv |-> f.precv, uuid |-> uuid]
    IN  /\ running
        /\ c \in registered
        /\ db' = r.db
        /\ req' = q
        /\ resp' = r.resp
        /\ sent' = (r.resp # None /\ send_ok)
        /\ registered' = CASE fate = "keep" -> registered
                           [] fate = "close" -> registered \ {c}
                           [] OTHER -> {}
        /\ running' = (fate # "crash")
        /\ accepted' = NextAccepted(q, r.resp)
        /\ pulled' = pulled \cup PulledIds(r.resp)
        /\ calls' = (IF "calls" \in DOMAIN r THEN r.calls ELSE <<>>)
        /\ UNCHANGED <<now, codec>>

\* uuid4 is called by the Register handler alone
UuidsFor(f) == IF ReqIs([hrecv |-> f.hrecv, precv |-> f.precv], REGISTER)
               THEN IdPool ELSE {NoId}

\* SendMessage is offered while the message counter is below the bound
WithinBounds(f) ==
    ReqIs([hrecv |-> f.hrecv, precv |-> f.precv], SEND_MESSAGE) => db.seq < MaxMsgId

\* a mailbox request on the connection, answered in full
Serve ==
    \E f \in MailFrames : \E uuid \in UuidsFor(f) :
        /\ WithinBounds(f)
        /\ _service_connection(1, f, uuid, TRUE, TRUE)
        /\ UNCHANGED stream

Next == _accept_connection(1) \/ Serve

Spec == Init /\ [][Next]_vars

\* a directory request on the connection, answered in full, as time passes
ServeDir ==
    \E f \in DirFrames : \E uuid \in UuidsFor(f) :
        /\ WithinBounds(f)
        /\ _service_connection(1, f, uuid, TRUE, TRUE)
        /\ UNCHANGED stream

NextDir == _accept_connection(1) \/ Tick \/ ServeDir

SpecDir == Init /\ [][NextDir]_vars

\* ------------------------------------------------------------------------
\* The reactor with several connections, failing writes and vanishing peers
\* ------------------------------------------------------------------------
ReactorFrames ==
    {RegisterFrame(NoId, NameA, Key(0)),
     SendFrame(Id(1), Id(1), TEXT_MESSAGE, ContentHi),
     PullFrame(Id(1)),
     Request(Id(1), PULL_MESSAGES + 1, <<>>)}

\* a request on connection c, answered in full
ServeOn(c) ==
    \E f \in ReactorFrames : \E uuid \in UuidsFor(f) :
        /\ WithinBounds(f)
        /\ _service_connection(c, f, uuid, TRUE, TRUE)
        /\ UNCHANGED stream

\* a request on connection c whose answer cannot be written: sendall raises;
\* getpeername on the broken socket works or raises as well
SendFails(c) ==
    \E f \in ReactorFrames : \E uuid \in UuidsFor(f) : \E peer_ok \in BOOLEAN :
        /\ WithinBounds(f)
        /\ handle_request(db, now, f.hrecv, f.precv, uuid).resp # None
        /\ _service_connection(c, f, uuid, FALSE, peer_ok)
        /\ UNCHANGED stream

\* the peer of connection c is gone: after an orderly end of stream
\* getpeername works, after a reset it works or raises
Disconnect(c) ==
    \E f \in ClosingFrames :
        \E peer_ok \in (IF f.hrecv.err = "reset" \/ f.precv.err = "reset"
                        THEN BOOLEAN ELSE {TRUE}) :
            /\ _service_connection(c, f, NoId, TRUE, peer_ok)
            /\ UNCHANGED stream

NextReactor ==
    \/ Tick
    \/ \E c \in Conns : _accept_connection(c)
    \/ \E c \in Conns : ServeOn(c)
    \/ \E c \in Conns : SendFails(c)
    \/ \E c \in Conns : Disconnect(c)

SpecReactor == Init /\ [][NextReactor]_vars

\* ------------------------------------------------------------------------
\* Properties.  A step of _service_connection leaves the clock alone and
\* registers no connection; the request it served is req', its answer resp'.
\* ------------------------------------------------------------------------
ServiceStep == now' = now /\ registered' \subseteq registered

\* the Error response as it is on the wire: version 2, code 9000, length 0
ErrorBytes == <<2, 40, 35, 0, 0, 0, 0>>

ClientIds(d) == {d.clients[i].ID : i \in DOMAIN d.clients}
UserNames(d) == {d.clients[i].UserName : i \in DOMAIN d.clients}

\* the bytes of s before its first null byte
BeforeNull(s) ==
    LET k == CHOOSE i \in 1..(Len(s) + 1) :
                 /\ i <= Len(s) => s[i] = 0
                 /\ \A j \in 1..(i - 1) : s[j] # 0
    IN  SubSeq(s, 1, k - 1)

\* the k-th record of a payload made of records of one size
Chunk(b, size, k) == SubSeq(b, (k - 1) * size + 1, k * size)

\* the length field of a response says how many bytes follow the header
RespFramed(b) ==
    /\ Len(b) >= ResponseHeader_size
    /\ ResponseHeader_unpack(SubSeq(b, 1, ResponseHeader_size)).version = SERVER_VERSION
    /\ ResponseHeader_unpack(SubSeq(b, 1, ResponseHeader_size)).payload_size
           = Len(b) - ResponseHeader_size

\* C1: a PullMessages request of client R is answered with exactly the
\* messages accepted for R since R's last pull, in the order in which they
\* were accepted, each with the id its MessageSent response reported; a pull
\* that follows with nothing accepted in between is therefore answered with
\* an empty payload.
C1_PullReturnsAccepted ==
    [][(ServiceStep /\ ReqIs(req', PULL_MESSAGES)
           /\ ReqHeader(req').client_id \in DOMAIN accepted)
       => /\ RespCode(resp') = RESP_PULL_MESSAGES
          /\ RespFramed(resp')
          /\ PulledMessage_unpack_stream_ok(RespPayload(resp'), 0)
          /\ PulledMessage_unpack_stream(RespPayload(resp'))
                 = accepted[ReqHeader(req').client_id]
          /\ accepted'[ReqHeader(req').client_id] = <<>>]_vars

\* two messages were accepted for a registered client, which then pulled them
C1_Witness ==
    /\ ReqIs(req, PULL_MESSAGES)
    /\ client_id_exists(db, ReqHeader(req).client_id)
    /\ RespCode(resp) = RESP_PULL_MESSAGES
    /\ Len(PulledMessage_unpack_stream(RespPayload(resp))) = 2
    /\ PulledMessage_unpack_stream(RespPayload(resp))[1].msg_id = 1
    /\ PulledMessage_unpack_stream(RespPayload(resp))[2].msg_id = 2
    /\ ~\E i \in DOMAIN db.messages :
           db.messages[i].ToClient = ReqHeader(req).client_id

\* C2: no two client records share an id or a username.
C2_UniqueClients ==
    \A i, j \in DOMAIN db.clients :
        i # j => /\ db.clients[i].ID # db.clients[j].ID
                 /\ db.clients[i].UserName # db.clients[j].UserName

\* a Register request with a fresh username drew the id of an existing record
C2_Witness ==
    /\ ReqIs(req, REGISTER)
    /\ Len(ReqPayload(req)) = RegistrationRequestPayload_size
    /\ BeforeNull(SubSeq(ReqPayload(req), 1, USERNAME_SIZE)) \notin UserNames(db)
    /\ req.uuid \in ClientIds(db)
    /\ resp = ErrorBytes

\* C3: a Register request whose username (the name field up to its first
\* null byte) is that of an existing record is answered with Error and
\* changes nothing in the store, the lastSeen of every record included.
C3_DuplicateUsername ==
    [][(/\ ServiceStep
        /\ ReqIs(req', REGISTER)
        /\ Len(ReqPayload(req')) = RegistrationRequestPayload_size
        /\ BeforeNull(SubSeq(ReqPayload(req'), 1, USERNAME_SIZE)) \in UserNames(db))
       => (resp' = ErrorBytes /\ db' = db)]_vars

\* "a", null, "b" was refused while a record named "a" existed, at a time
\* when a touch of the sender's record would have shown
C3_Witness ==
    /\ ReqIs(req, REGISTER)
    /\ SubSeq(ReqPayload(req), 1, 3) = NameAlias
    /\ resp = ErrorBytes
    /\ NameA \in UserNames(db)
    /\ \E i \in DOMAIN db.clients :
           db.clients[i].ID = ReqHeader(req).client_id /\ db.clients[i].LastSeen < now

\* C4: a SendMessage request whose recipient is no registered client is
\* answered with Error and adds no message.
C4_UnknownRecipient ==
    [][(/\ ServiceStep
        /\ ReqIs(req', SEND_MESSAGE)
        /\ Len(ReqPayload(req')) >= CLIENT_ID_SIZE
        /\ SubSeq(ReqPayload(req'), 1, CLIENT_ID_SIZE) \notin ClientIds(db))
       => (resp' = ErrorBytes /\ db'.messages = db.messages /\ db'.seq = db.seq)]_vars

\* a registered client sent a full message to an id that is not registered
C4_Witness ==
    /\ ReqIs(req, SEND_MESSAGE)
    /\ Len(ReqPayload(req)) > SendMessageRequestPayloadHeader_size
    /\ SubSeq(ReqPayload(req), 1, CLIENT_ID_SIZE) \notin ClientIds(db)
    /\ ReqHeader(req).client_id \in ClientIds(db)
    /\ resp = ErrorBytes

\* C5: the answer to ClientsList from X holds one entry (id, padded
\* username) for each registered client other than X, and none for X.
C5_ListExcludesSelf ==
    [][(ServiceStep /\ ReqIs(req', CLIENTS_LIST))
       => LET X == ReqHeader(req').client_id
              p == RespPayload(resp')
              n == Len(p) \div ClientInfo_size
              entries == {ClientInfo_unpack(Chunk(p, ClientInfo_size, k)) : k \in 1..n}
          IN  /\ RespCode(resp') = RESP_CLIENTS_LIST
              /\ RespFramed(resp')
              /\ Len(p) = n * ClientInfo_size
              /\ n = Cardinality(ClientIds(db) \ {X})
              /\ entries = {[client_id |-> db.clients[i].ID,
                             name |-> db.clients[i].UserName
                                      \o Zeros(USERNAME_SIZE - Len(db.clients[i].UserName))] :
                            i \in {j \in DOMAIN db.clients : db.clients[j].ID # X}}
              /\ \A e \in entries : e.client_id # X]_vars

\* a registered client asked for the list while another client existed
C5_Witness ==
    /\ ReqIs(req, CLIENTS_LIST)
    /\ ReqHeader(req).client_id \in ClientIds(db)
    /\ Len(db.clients) = 2
    /\ Len(RespPayload(resp)) = ClientInfo_size

\* C6: with two registered clients A and B and no message ever enqueued,
\* SendMessage from A to B is answered with MessageSent, B's id and message
\* id 1; B's PullMessages right after that exchange returns one record with
\* A's id, the id MessageSent reported and the type and content A sent; a
\* PullMessages of B right after that pull returns an empty payload.
C6_Scenario ==
    [][ServiceStep =>
        /\ (/\ ReqIs(req', SEND_MESSAGE)
            /\ Len(ReqPayload(req')) >= SendMessageRequestPayloadHeader_size
            /\ db.seq = 0 /\ db.messages = <<>>
            /\ ReqHeader(req').client_id \in ClientIds(db)
            /\ SubSeq(ReqPayload(req'), 1, CLIENT_ID_SIZE) \in ClientIds(db)
            /\ SubSeq(ReqPayload(req'), 1, CLIENT_ID_SIZE) # ReqHeader(req').client_id)
           => resp' = <<2, 55, 8, 20, 0, 0, 0>>
                      \o SubSeq(ReqPayload(req'), 1, CLIENT_ID_SIZE) \o <<1, 0, 0, 0>>
        /\ (/\ ReqIs(req', PULL_MESSAGES)
            /\ ReqIs(req, SEND_MESSAGE)
            /\ RespCode(resp) = RESP_MESSAGE_SENT
            /\ db.seq = 1
            /\ ReqHeader(req').client_id = SubSeq(ReqPayload(req), 1, CLIENT_ID_SIZE))
           => /\ RespCode(resp') = RESP_PULL_MESSAGES
              /\ RespFramed(resp')
              /\ PulledMessage_unpack_stream(RespPayload(resp'))
                 = <<[from_client_id |-> ReqHeader(req).client_id,
                      msg_id |-> UnpackInt(SubSeq(RespPayload(resp), CLIENT_ID_SIZE + 1,
                                                  CLIENT_ID_SIZE + 4)),
                      msg_type |-> ReqPayload(req)[CLIENT_ID_SIZE + 1],
                      msg_size |-> Len(ReqPayload(req)) - SendMessageRequestPayloadHeader_size,
                      content |-> SubSeq(ReqPayload(req),
                                         SendMessageRequestPayloadHeader_size + 1,
                                         Len(ReqPayload(req)))]>>
        /\ (/\ ReqIs(req', PULL_MESSAGES)
            /\ ReqIs(req, PULL_MESSAGES)
            /\ RespCode(resp) = RESP_PULL_MESSAGES
            /\ ReqHeader(req').client_id = ReqHeader(req).client_id)
           => resp' = <<2, 56, 8, 0, 0, 0, 0>>]_vars

\* B pulled the text "hi" that A sent as the first message of the store, and
\* pulled again
C6_Witness ==
    /\ Len(db.clients) = 2
    /\ db.seq = 1
    /\ ReqIs(req, PULL_MESSAGES)
    /\ ReqHeader(req).client_id \in ClientIds(db)
    /\ resp = <<2, 56, 8, 0, 0, 0, 0>>
    /\ pulled = {1}
    /\ accepted = [id \in IdPool |-> <<>>]

\* C7: a frame that breaks a layout, a duplicate username, an unknown
\* recipient or lookup target, an unknown request code and a store error
\* (the INSERT of a client row with an id the table holds already) are all
\* answered with the same seven bytes: version, code 9000, length 0.  Every
\* answer carries one of the six response codes, and code 9000 comes with no
\* payload.
C7_Failure(q, d) ==
    \/ (q.hrecv.err = "none" /\ Len(q.hrecv.data) \in 1..(RequestHeader_size - 1))
    \/ (ReqHeaderOk(q) /\ ReqHeader(q).payload_size > 0 /\ q.precv.err = "block")
    \/ /\ ReqDispatched(q)
       /\ LET code == ReqHeader(q).code
              p == ReqPayload(q)
          IN  \/ code \notin {1100, 1101, 1102, 1103, 1104}
              \/ code = 1100 /\ Len(p) # 415
              \/ code = 1100 /\ Len(p) = 415
                   /\ BeforeNull(SubSeq(p, 1, 255)) \in UserNames(d)
              \/ code = 1100 /\ Len(p) = 415 /\ q.uuid \in ClientIds(d)
              \/ code = 1102 /\ Len(p) # 16
              \/ code = 1102 /\ Len(p) = 16 /\ p \notin ClientIds(d)
              \/ code = 1103 /\ Len(p) < 21
              \/ code = 1103 /\ Len(p) >= 21 /\ SubSeq(p, 1, 16) \notin ClientIds(d)

C7_GenericError ==
    [][ServiceStep =>
        /\ C7_Failure(req', db) => resp' = ErrorBytes
        /\ resp' # None =>
              /\ RespFramed(resp')
              /\ RespCode(resp') \in {2100, 2101, 2102, 2103, 2104, 9000}
              /\ RespCode(resp') = 9000 => resp' = ErrorBytes]_vars

\* the store refused a client row (the id exists) and the answer was Error
C7_Witness ==
    /\ ReqIs(req, REGISTER)
    /\ Len(ReqPayload(req)) = RegistrationRequestPayload_size
    /\ BeforeNull(SubSeq(ReqPayload(req), 1, USERNAME_SIZE)) = NameB
    /\ UserNames(db) = {NameA}
    /\ req.uuid \in ClientIds(db)
    /\ resp = ErrorBytes

\* C8: a queued message stays in the mailbox as it is through every step
\* but a PullMessages request of its recipient; a message that enters the
\* mailbox has an id above every id given before, so a removed message does
\* not come back.
C8_MessageFrame ==
    [][/\ \A i \in DOMAIN db.messages :
              \/ db.messages[i] \in Range(db'.messages)
              \/ /\ ServiceStep
                 /\ ReqIs(req', PULL_MESSAGES)
                 /\ ReqHeader(req').client_id = db.messages[i].ToClient
       /\ \A m \in Range(db'.messages) :
              (m \in Range(db.messages) \/ m.ID > db.seq) /\ m.ID <= db'.seq
       /\ db'.seq >= db.seq
       /\ Len(db'.messages) = Cardinality({m.ID : m \in Range(db'.messages)})]_vars

\* a client pulled its messages while a message for another client stayed
C8_Witness ==
    /\ ReqIs(req, PULL_MESSAGES)
    /\ RespCode(resp) = RESP_PULL_MESSAGES
    /\ Len(RespPayload(resp)) > 0
    /\ \E i \in DOMAIN db.messages :
           /\ db.messages[i].ToClient # ReqHeader(req).client_id
           /\ db.messages[i].ID = 1

MessageIds(d) == {d.messages[i].ID : i \in DOMAIN d.messages}

C10_FailureIsLocal ==
    [][ServiceStep =>
          /\ running'
          /\ (registered \ {req'.conn}) \subseteq registered'
          /\ (resp' = None \/ ~sent') => req'.conn \notin registered']_vars

\* what of a client record is fixed at registration
Identity(c) == [ID |-> c.ID, UserName |-> c.UserName, PublicKey |-> c.PublicKey]

\* every record of the directory is there after the step, with the id, the
\* username and the public key it has
C11_RecordsKept ==
    \A i \in DOMAIN db.clients :
        /\ i \in DOMAIN db'.clients
        /\ Identity(db'.clients[i]) = Identity(db.clients[i])

\* C11 as stated: a record is never deleted and its id, username and public
\* key never change; a request whose header client id is not registered
\* creates or changes no record.
C11_AsStated ==
    [][/\ C11_RecordsKept
       /\ (ServiceStep /\ ReqDispatched(req')
             /\ ReqHeader(req').client_id \notin ClientIds(db))
              => db'.clients = db.clients]_vars

\* C11 (amended): a record is never deleted and its id, username and public
\* key never change; a request other than Register whose header client id
\* is not registered creates or changes no record.
C11_RecordsImmutable ==
    [][/\ C11_RecordsKept
       /\ (ServiceStep /\ ReqDispatched(req')
             /\ ReqHeader(req').code # REGISTER
             /\ ReqHeader(req').client_id \notin ClientIds(db))
              => db'.clients = db.clients]_vars

\* a client that is not registered asked for the clients list at a time
\* when a touch of the records there would have shown
C11_Witness ==
    /\ ReqIs(req, CLIENTS_LIST)
    /\ ReqHeader(req).client_id \notin ClientIds(db)
    /\ Len(db.clients) = MaxClients - 1
    /\ \E i \in DOMAIN db.clients : db.clients[i].LastSeen < now
    /\ RespCode(resp) = RESP_CLIENTS_LIST

\* the message ids the server has given out, as its responses showed them:
\* those acknowledged and not pulled since, and those some pull returned
AckedIds == UNION {{accepted[t][i].msg_id : i \in DOMAIN accepted[t]} : t \in DOMAIN accepted}
GivenIds == AckedIds \cup pulled \cup MessageIds(db)

\* C12: the id a MessageSent response reports is that of the message just
\* stored and is above every id given before, those of messages pulled and
\* deleted included; the ids in the store are distinct and grow in the order
\* in which the messages were stored.
C12_IdsIncrease ==
    [][/\ (ServiceStep /\ ReqIs(req', SEND_MESSAGE) /\ RespCode(resp') = RESP_MESSAGE_SENT)
              => LET id == MessageSentResponsePayload_unpack(RespPayload(resp')).message_id
                 IN  /\ \A g \in GivenIds : g < id
                     /\ Len(db'.messages) = Len(db.messages) + 1
                     /\ db'.messages[Len(db'.messages)].ID = id
       /\ \A i, j \in DOMAIN db'.messages :
              i < j => db'.messages[i].ID < db'.messages[j].ID]_vars

\* a message was accepted after the message with id 1 had been pulled and
\* deleted, the store being empty in between
C12_Witness ==
    /\ ReqIs(req, SEND_MESSAGE)
    /\ RespCode(resp) = RESP_MESSAGE_SENT
    /\ MessageSentResponsePayload_unpack(RespPayload(resp)).message_id = 2
    /\ pulled = {1}
    /\ MessageIds(db) = {2}

\* C13: a PublicKey request for an id that is not registered is answered
\* with Error; one for a registered id is answered with a PublicKey response
\* that carries that id and the key of its record, which is the key the
\* Register request of that client carried, whoever asks.
C13_PublicKey ==
    [][/\ (ServiceStep /\ ReqIs(req', PUBLIC_KEY)
             /\ Len(ReqPayload(req')) = PublicKeyRequestPayload_size)
              => LET target == ReqPayload(req')
                 IN  IF target \notin ClientIds(db)
                     THEN resp' = ErrorBytes
                     ELSE \E i \in DOMAIN db.clients :
                              /\ db.clients[i].ID = target
                              /\ resp' = <<2, 54, 8, 176, 0, 0, 0>> \o target
                                             \o db.clients[i].PublicKey
       /\ (ServiceStep /\ ReqIs(req', REGISTER)
             /\ RespCode(resp') = RESP_REGISTRATION_SUCCESS)
              => \E i \in DOMAIN db'.clients :
                     /\ db'.clients[i].ID = RespPayload(resp')
                     /\ db'.clients[i].PublicKey =
                            SubSeq(ReqPayload(req'), USERNAME_SIZE + 1,
                                   RegistrationRequestPayload_size)]_vars

\* the client with id 1 asked for the key of the second client of the
\* directory and got that client's id and the key of sevens
C13_Witness ==
    /\ ReqIs(req, PUBLIC_KEY)
    /\ Len(db.clients) = 2
    /\ ReqPayload(req) = db.clients[2].ID
    /\ ReqHeader(req).client_id # ReqPayload(req)
    /\ resp = <<2, 54, 8, 176, 0, 0, 0>> \o db.clients[2].ID \o Key(7)

\* ------------------------------------------------------------------------
\* protocol_structs.py on its own: a struct is built from field values,
\* packed, and the bytes are unpacked again
\* ------------------------------------------------------------------------
StructKinds == {"RequestHeader", "RegistrationRequestPayload", "PublicKeyRequestPayload",
                "SendMessageRequestPayloadHeader", "ResponseHeader",
                "RegistrationSuccessPayload", "ClientInfo", "PublicKeyResponsePayload",
                "MessageSentResponsePayload", "PulledMessage"}

\* cls(*values).pack()
StructPack(kind, v) ==
    CASE kind = "RequestHeader" ->
             RequestHeader_pack(v.client_id, v.version, v.code, v.payload_size)
      [] kind = "RegistrationRequestPayload" ->
             RegistrationRequestPayload_pack(v.name, v.public_key)
      [] kind = "PublicKeyRequestPayload" -> PublicKeyRequestPayload_pack(v.client_id)
      [] kind = "SendMessageRequestPayloadHeader" ->
             SendMessageRequestPayloadHeader_pack(v.client_id, v.message_type, v.content_size)
      [] kind = "ResponseHeader" -> ResponseHeader_pack(v.version, v.code, v.payload_size)
      [] kind = "RegistrationSuccessPayload" -> RegistrationSuccessPayload_pack(v.client_id)
      [] kind = "ClientInfo" -> ClientInfo_pack(v.client_id, v.name)
      [] kind = "PublicKeyResponsePayload" ->
             PublicKeyResponsePayload_pack(v.client_id, v.public_key)
      [] kind = "MessageSentResponsePayload" ->
             MessageSentResponsePayload_pack(v.client_id, v.message_id)
      [] kind = "PulledMessage" ->
             PulledMessage_pack(v.from_client_id, v.msg_id, v.msg_type, v.msg_size, v.content)

StructSize(kind) ==
    CASE kind = "RequestHeader" -> RequestHeader_size
      [] kind = "RegistrationRequestPayload" -> RegistrationRequestPayload_size
      [] kind = "PublicKeyRequestPayload" -> PublicKeyRequestPayload_size
      [] kind = "SendMessageRequestPayloadHeader" -> SendMessageRequestPayloadHeader_size
      [] kind = "ResponseHeader" -> ResponseHeader_size
      [] kind = "RegistrationSuccessPayload" -> RegistrationSuccessPayload_size
      [] kind = "ClientInfo" -> ClientInfo_size
      [] kind = "PublicKeyResponsePayload" -> PublicKeyResponsePayload_size
      [] kind = "MessageSentResponsePayload" -> MessageSentResponsePayload_size
      [] kind = "PulledMessage" -> PulledMessage_header_size

\* cls.unpack(buffer) returns; PulledMessage.unpack_stream(buffer) returns
StructCanUnpack(kind, buffer) ==
    IF kind = "PulledMessage" THEN PulledMessage_unpack_stream_ok(buffer, 0)
    ELSE CanUnpack(StructSize(kind), buffer)

\* cls.unpack(buffer): the fields of the struct; for PulledMessage the list
\* that unpack_stream returns
StructUnpack(kind, buffer) ==
    CASE kind = "RequestHeader" -> RequestHeader_unpack(buffer)
      [] kind = "RegistrationRequestPayload" -> RegistrationRequestPayload_unpack(buffer)
      [] kind = "PublicKeyRequestPayload" -> PublicKeyRequestPayload_unpack(buffer)
      [] kind = "SendMessageRequestPayloadHeader" ->
             SendMessageRequestPayloadHeader_unpack(buffer)
      [] kind = "ResponseHeader" -> ResponseHeader_unpack(buffer)
      [] kind = "RegistrationSuccessPayload" -> RegistrationSuccessPayload_unpack(buffer)
      [] kind = "ClientInfo" -> ClientInfo_unpack(buffer)
      [] kind = "PublicKeyResponsePayload" -> PublicKeyResponsePayload_unpack(buffer)
      [] kind = "MessageSentResponsePayload" -> MessageSentResponsePayload_unpack(buffer)
      [] kind = "PulledMessage" -> PulledMessage_unpack_stream(buffer)

\* field values the layouts are for: 16-byte ids, integers over the whole
\* range of their field, usernames of 1 and of 255 printable bytes, 160-byte
\* keys, contents of 0..MaxContent bytes
CodecIds == {NoId, Id(255)}
\* (of a 4-byte field, the values up to 2^31 - 1)
CodecInts(w) == {0, 1, IF w < 4 THEN 256 ^ w - 1 ELSE 2147483647}
Name255 == [i \in 1..USERNAME_SIZE |-> 126]
CodecNames == {NameA, Name255}
CodecKeys == {Key(0), Key(255)}
CodecContents == UNION {[1..n -> {0, 255}] : n \in 0..MaxContent}

CodecValues(kind) ==
    CASE kind = "RequestHeader" ->
             [client_id : CodecIds, version : CodecInts(1), code : CodecInts(2),
              payload_size : CodecInts(4)]
      [] kind = "RegistrationRequestPayload" -> [name : CodecNames, public_key : CodecKeys]
      [] kind = "PublicKeyRequestPayload" -> [client_id : CodecIds]
      [] kind = "SendMessageRequestPayloadHeader" ->
             [client_id : CodecIds, message_type : CodecInts(1),
              content_size : CodecInts(4)]
      [] kind = "ResponseHeader" ->
             [version : CodecInts(1), code : CodecInts(2), payload_size : CodecInts(4)]
      [] kind = "RegistrationSuccessPayload" -> [client_id : CodecIds]
      [] kind = "ClientInfo" -> [client_id : CodecIds, name : CodecNames]
      [] kind = "PublicKeyResponsePayload" -> [client_id : CodecIds, public_key : CodecKeys]
      [] kind = "MessageSentResponsePayload" ->
             [client_id : CodecIds, message_id : CodecInts(4)]
      [] kind = "PulledMessage" ->
             {[from_client_id |-> f, msg_id |-> i, msg_type |-> t,
               msg_size |-> Len(c), content |-> c] :
                  f \in CodecIds, i \in CodecInts(4), t \in CodecInts(1),
                  c \in CodecContents}

\* a struct has been built from field values
InitCodec ==
    /\ db = EmptyDb
    /\ now = 0
    /\ registered = {}
    /\ running = TRUE
    /\ req = NoReq
    /\ resp = None
    /\ sent = FALSE
    /\ accepted = [id \in IdPool |-> <<>>]
    /\ pulled = {}
    /\ calls = <<>>
    /\ stream = NoStream
    /\ \E kind \in StructKinds : \E v \in CodecValues(kind) :
           codec = [stage |-> "built", kind |-> kind, value |-> v, buffer |-> <<>>,
                    decoded |-> <<>>]

\* buffer = struct.pack()
pack ==
    /\ codec.stage = "built"
    /\ codec' = [codec EXCEPT !.stage = "packed",
                              !.buffer = StructPack(codec.kind, codec.value)]
    /\ UNCHANGED <<db, now, registered, running, req, resp, sent, accepted, pulled, calls,
                 stream>>

\* cls.unpack(buffer), or unpack_stream(buffer), when it does not raise
unpack ==
    /\ codec.stage = "packed"
    /\ StructCanUnpack(codec.kind, codec.buffer)
    /\ codec' = [codec EXCEPT !.stage = "unpacked",
                              !.decoded = StructUnpack(codec.kind, codec.buffer)]
    /\ UNCHANGED <<db, now, registered, running, req, resp, sent, accepted, pulled, calls,
                 stream>>

NextCodec == pack \/ unpack

SpecCodec == InitCodec /\ [][NextCodec]_vars

\* the fields that hold bytes in a field of fixed width, and that width
FixedBytesFields == {"client_id", "from_client_id", "name", "public_key"}
FieldWidth(k) == CASE k = "name" -> 255
                   [] k = "public_key" -> 160
                   [] OTHER -> 16

\* d is s followed by null bytes up to w bytes (s itself when s has w bytes)
NullPadded(d, s, w) ==
    /\ Len(d) = w
    /\ Len(s) <= w
    /\ \A i \in 1..w : d[i] = IF i <= Len(s) THEN s[i] ELSE 0

\* what unpack gave for the one struct that was packed
DecodedFields == IF codec.kind = "PulledMessage" THEN codec.decoded[1] ELSE codec.decoded

\* C14 as stated: decoding the encoding of a value gives back the same field
\* values, for every layout and every valid value.
C14_AsStated ==
    /\ codec.stage = "packed" => StructCanUnpack(codec.kind, codec.buffer)
    /\ codec.stage = "unpacked" =>
           IF codec.kind = "PulledMessage" THEN codec.decoded = <<codec.value>>
           ELSE codec.decoded = codec.value

\* C14 (amended): decoding the encoding of a value gives back the same
\* integers and the same content, and every field of bytes of fixed width as
\* it was given followed by null bytes up to the width of the field: the same
\* value for a 16-byte id, a 255-byte username and a 160-byte key, a username
\* of fewer bytes with null bytes after it.
C14_RoundTrip ==
    /\ codec.stage = "packed" => StructCanUnpack(codec.kind, codec.buffer)
    /\ codec.stage = "unpacked" =>
           /\ codec.kind = "PulledMessage" => Len(codec.decoded) = 1
           /\ DOMAIN DecodedFields = DOMAIN codec.value
           /\ \A k \in DOMAIN codec.value :
                  IF k \in FixedBytesFields
                  THEN NullPadded(DecodedFields[k], codec.value[k], FieldWidth(k))
                  ELSE DecodedFields[k] = codec.value[k]

\* the username "a" went through a client-list entry and came back as 255
\* bytes, "a" and 254 null bytes
C14_Witness ==
    /\ codec.stage = "unpacked"
    /\ codec.kind = "ClientInfo"
    /\ codec.value.name = <<97>>
    /\ Len(codec.decoded.name) = 255
    /\ codec.decoded.name[1] = 97
    /\ codec.decoded.name[2] = 0

\* the positions of the calls of one kind in a sequence of calls
CallsOf(cs, op) == {k \in DOMAIN cs : cs[k].op = op}

\* the ids of the messages the store holds for a client, in the order of
\* the store
IdsFor(d, client_id) ==
    LET For(m) == m.ToClient = client_id
        rows == SelectSeq(d.messages, For)
    IN  [i \in DOMAIN rows |-> rows[i].ID]

MuxFrames ==
    {RegisterFrame(NoId, NameA, Key(0)), RegisterFrame(NoId, NameB, Key(7)),
     SendFrame(Id(1), Id(2), TEXT_MESSAGE, ContentHi),
     SendFrame(Id(2), Id(1), SYM_KEY_REQUEST, <<>>)}
    \cup {PullFrame(c) : c \in IdPool}

\* a request of any client on connection c, answered in full
ServeMux(c) ==
    \E f \in MuxFrames : \E uuid \in UuidsFor(f) :
        /\ WithinBounds(f)
        /\ _service_connection(c, f, uuid, TRUE, TRUE)
        /\ UNCHANGED stream

NextMux ==
    \/ \E c \in Conns : _accept_connection(c)
    \/ \E c \in Conns : ServeMux(c)

SpecMux == Init /\ [][NextMux]_vars

\* C16: a message leaves the mailbox only in the step that serves a
\* PullMessages request, on whatever connection, and only as part of the
\* payload of the response to that request; the messages that response
\* holds are all those the mailbox held for the requester, none of them is
\* left behind, and no message for the requester is in the mailbox when the
\* step is over.
C16_NoInterleaving ==
    [][LET gone == MessageIds(db) \ MessageIds(db')
       IN  /\ gone # {} => /\ ServiceStep
                           /\ ReqIs(req', PULL_MESSAGES)
                           /\ gone = PulledIds(resp')
           /\ (ServiceStep /\ ReqIs(req', PULL_MESSAGES)
                 /\ RespCode(resp') = RESP_PULL_MESSAGES)
                  => /\ PulledIds(resp') = Range(IdsFor(db, ReqHeader(req').client_id))
                     /\ IdsFor(db', ReqHeader(req').client_id) = <<>>
                     /\ \A m \in Range(db.messages) :
                            m.ToClient # ReqHeader(req').client_id
                                => m \in Range(db'.messages)]_vars

\* on one connection a message was accepted for a client; on another
\* connection another client pulled its own message, and the first message
\* stayed
C16_Witness ==
    /\ ReqIs(req, PULL_MESSAGES)
    /\ req.conn = 2
    /\ PulledIds(resp) = {2}
    /\ MessageIds(db) = {1}
    /\ db.messages[1].ToClient # ReqHeader(req).client_id

\* ------------------------------------------------------------------------
\* Connection 1 byte by byte: what the client writes arrives in pieces, and
\* a recv of the non-blocking socket takes what has arrived, up to the
\* number of bytes asked for
\* ------------------------------------------------------------------------
FrameBytes(f) == f.hrecv.data \o f.precv.data

\* the server starts on the database file of an earlier run, in which the
\* client "a" registered and was given the id of ones
InitStream ==
    /\ db = add_client(EmptyDb, 0, Id(1), NameA, Key(0))
    /\ now = 0
    /\ registered = {}
    /\ running = TRUE
    /\ req = NoReq
    /\ resp = None
    /\ sent = FALSE
    /\ accepted = [id \in IdPool |-> <<>>]
    /\ pulled = {}
    /\ calls = <<>>
    /\ codec = NoCodec
    /\ stream = NoStream

\* what that client writes: a text for itself, a pull, a request whose code
\* is none of the five
StreamFrames ==
    {SendFrame(Id(1), Id(1), TEXT_MESSAGE, ContentHi),
     PullFrame(Id(1)),
     Request(Id(1), PULL_MESSAGES + 1, <<>>)}

\* the client writes a request, all of it
ClientWrites ==
    /\ running
    /\ 1 \in registered
    /\ ~stream.closed
    /\ Len(stream.frames) < MaxFrames
    /\ \E f \in StreamFrames :
           stream' = [stream EXCEPT !.frames = Append(@, FrameBytes(f)),
                                    !.flying = @ \o FrameBytes(f)]
    /\ UNCHANGED <<db, now, registered, running, req, resp, sent, accepted, pulled, calls,
                   codec>>

\* the pieces in which written bytes arrive: all that is on its way, a
\* request header alone, or a request header with a SendMessage payload up
\* to the first byte of its content
ArrivalSizes(flying) ==
    {n \in {Len(flying), RequestHeader_size,
            RequestHeader_size + SendMessageRequestPayloadHeader_size + 1} :
         n >= 1 /\ n <= Len(flying)}

\* bytes on their way arrive in the receive buffer of the socket
Arrives ==
    /\ \E n \in ArrivalSizes(stream.flying) :
           stream' = [stream EXCEPT
                          !.unread = @ \o SubSeq(stream.flying, 1, n),
                          !.flying = SubSeq(@, n + 1, Len(@))]
    /\ UNCHANGED <<db, now, registered, running, req, resp, sent, accepted, pulled, calls,
                   codec>>

\* the client closes its end; what it wrote before still arrives
ClientCloses ==
    /\ 1 \in registered
    /\ ~stream.closed
    /\ stream' = [stream EXCEPT !.closed = TRUE]
    /\ UNCHANGED <<db, now, registered, running, req, resp, sent, accepted, pulled, calls,
                   codec>>

\* sock.recv(n) on the receive buffer buf: the first n bytes, or all of them
\* when there are fewer
Taken(buf, n) == SubSeq(buf, 1, Min(n, Len(buf)))

\* the end of the stream has been reached: nothing to read, nothing to come
AtEnd(st, buf) == buf = <<>> /\ st.closed /\ st.flying = <<>>

\* What the two recv calls of handle_request give on the stream st: the
\* header recv takes up to RequestHeader.size bytes; the payload recv is
\* made when the header unpacks and declares a payload, and takes up to
\* payload_size bytes of what is left, raises BlockingIOError when nothing
\* is left, and gives b'' at the end of the stream.
StreamRecv(st) ==
    LET h == Taken(st.unread, RequestHeader_size)
        rest == SubSeq(st.unread, Len(h) + 1, Len(st.unread))
        wants == IF CanUnpack(RequestHeader_size, h)
                 THEN RequestHeader_unpack(h).payload_size ELSE 0
        p == Taken(rest, wants)
    IN  [hrecv |-> Recv("none", h),
         precv |-> IF wants > 0 /\ rest = <<>> /\ ~AtEnd(st, rest)
                   THEN Recv("block", <<>>) ELSE Recv("none", p)]

\* the selector reports connection 1 readable (bytes in the buffer, or the
\* end of the stream) and _service_connection runs
ServiceStream ==
    /\ stream.unread # <<>> \/ AtEnd(stream, stream.unread)
    /\ \E f \in {StreamRecv(stream)} : \E uuid \in UuidsFor(f) :
           LET n == Len(f.hrecv.data) + Len(f.precv.data)
           IN  /\ _service_connection(1, f, uuid, TRUE, TRUE)
               /\ stream' = [stream EXCEPT !.unread = SubSeq(@, n + 1, Len(@)),
                                           !.nread = @ + n]

\* the connection that is followed is the first one accepted
AcceptStream == stream = NoStream /\ _accept_connection(1)

NextStream ==
    \/ AcceptStream
    \/ ClientWrites
    \/ Arrives
    \/ ClientCloses
    \/ ServiceStream

SpecStream == InitStream /\ [][NextStream]_vars

\* the step served a readability event in which recv took bytes
TookBytes == stream'.nread > stream.nread

\* the bytes of the first n requests the client wrote
RECURSIVE WrittenUpTo(_, _)
WrittenUpTo(frames, n) ==
    IF n = 0 THEN <<>> ELSE WrittenUpTo(frames, n - 1) \o frames[n]

\* the request served in the step is the request whose bytes are F: its
\* header is the first 23 bytes, its payload all the rest
ServedWhole(F) ==
    /\ req'.hrecv = Recv("none", SubSeq(F, 1, 23))
    /\ ReqDispatched(req')
    /\ ReqPayload(req') = SubSeq(F, 24, Len(F))

\* C17: the connection leaves the selector only in a step in which the read
\* gave zero bytes, the connection was reset or the response could not be
\* written; a request answered with Error leaves it registered; and the
\* request served after an Error answer is a request the client wrote, whole.
C17_ErrorKeepsConnection ==
    [][/\ (1 \in registered /\ 1 \notin registered')
              => \/ req'.hrecv = Recv("none", <<>>)
                 \/ req'.hrecv.err = "reset" \/ req'.precv.err = "reset"
                 \/ ~sent'
       /\ (TookBytes /\ resp' = ErrorBytes /\ sent') => 1 \in registered'
       /\ (TookBytes /\ resp = ErrorBytes)
              => \E j \in DOMAIN stream.frames :
                     /\ stream.nread = Len(WrittenUpTo(stream.frames, j - 1))
                     /\ ServedWhole(stream.frames[j])]_vars

\* C18: every readability event in which bytes are read takes exactly the
\* bytes of one request the client wrote, the next one, and dispatches its
\* header with its whole payload, whatever part of the request had arrived
\* when the event fired.
C18_OneFramePerEvent ==
    [][TookBytes =>
          \E j \in DOMAIN stream.frames :
              /\ stream.nread = Len(WrittenUpTo(stream.frames, j - 1))
              /\ stream'.nread = Len(WrittenUpTo(stream.frames, j))
              /\ ServedWhole(stream.frames[j])]_vars

\* C19: a request with a well-formed header and a code other than Register
\* sets the lastSeen of the record of the header's client id to the time of
\* the request, whatever the answer; a Register request leaves the lastSeen
\* of every record as it was.
C19_LastSeenTouched ==
    [][(ServiceStep /\ ReqHeaderOk(req')) =>
          IF ReqHeader(req').code # REGISTER
          THEN \A i \in DOMAIN db.clients :
                   db.clients[i].ID = ReqHeader(req').client_id
                       => db'.clients[i].LastSeen = now
          ELSE \A i \in DOMAIN db.clients :
                   db'.clients[i].LastSeen = db.clients[i].LastSeen]_vars

\* ------------------------------------------------------------------------
\* Registrations under names of all kinds of bytes
\* ------------------------------------------------------------------------
NameBell == <<7>>                 \* the control character BEL
NameDel == <<97, 127>>            \* "a", then the control character DEL
NameHigh == <<200>>               \* a byte that is not ASCII

NameFrames ==
    {RegisterFrame(NoId, n, Key(0)) : n \in {NameA, NameBell, NameDel, NameHigh}}
    \cup {ClientsListFrame(NoId)}

\* a registration, or the request for the list, answered in full
ServeNames ==
    \E f \in NameFrames : \E uuid \in UuidsFor(f) :
        /\ _service_connection(1, f, uuid, TRUE, TRUE)
        /\ UNCHANGED stream

NextNames == _accept_connection(1) \/ ServeNames

SpecNames == Init /\ [][NextNames]_vars

\* C20: a Register request whose username (the name field up to its first
\* null byte) has a byte outside the printable ASCII range 32..126 is
\* answered with Error and creates no client record.
C20_NonPrintableRejected ==
    [][(/\ ServiceStep
        /\ ReqIs(req', REGISTER)
        /\ Len(ReqPayload(req')) = RegistrationRequestPayload_size
        /\ \E b \in Range(BeforeNull(SubSeq(ReqPayload(req'), 1, USERNAME_SIZE))) :
               b \notin 32..126)
       => (resp' = ErrorBytes /\ db'.clients = db.clients)]_vars

\* ------------------------------------------------------------------------
\* SendMessage requests whose embedded content length is not the length of
\* the content that follows
\* ------------------------------------------------------------------------
ContentH == <<104>>                         \* b"h"

\* a SendMessage frame whose message header declares a content of
\* content_size bytes, whatever content follows it
SendDeclared(client_id, to, type, content, content_size) ==
    Request(client_id, SEND_MESSAGE,
            SendMessageRequestPayloadHeader_pack(to, type, content_size) \o content)

\* b"hi" is sent declared as 0 bytes, b"h" declared as 5 bytes, and the
\* empty content declared as it is
LenFrames ==
    {RegisterFrame(NoId, NameA, Key(0))}
    \cup {SendDeclared(Id(1), t, TEXT_MESSAGE, ContentHi, 0) : t \in IdPool}
    \cup {SendDeclared(Id(1), t, TEXT_MESSAGE, ContentH, 5) : t \in IdPool}
    \cup {SendFrame(Id(1), t, SYM_KEY_REQUEST, <<>>) : t \in IdPool}
    \cup {PullFrame(c) : c \in IdPool}

ServeLen ==
    \E f \in LenFrames : \E uuid \in UuidsFor(f) :
        /\ WithinBounds(f)
        /\ _service_connection(1, f, uuid, TRUE, TRUE)
        /\ UNCHANGED stream

NextLen == _accept_connection(1) \/ ServeLen

SpecLen == Init /\ [][NextLen]_vars

\* C21: a SendMessage request answered with MessageSent adds one message to
\* the store, under the id the answer reports, whose content is the payload
\* bytes after the 21-byte message header, whatever length that header
\* declares; and the records of a PullMessages response carry, one per stored
\* message and in their order, the stored content whole, with a length field
\* that is the number of bytes of that content, and are the records accepted
\* for the requester as they were on the wire.
C21_ContentAsReceived ==
    [][/\ (ServiceStep /\ ReqIs(req', SEND_MESSAGE)
              /\ RespCode(resp') = RESP_MESSAGE_SENT)
          => LET p == ReqPayload(req')
                 ack == MessageSentResponsePayload_unpack(RespPayload(resp'))
             IN  /\ Len(db'.messages) = Len(db.messages) + 1
                 /\ SubSeq(db'.messages, 1, Len(db.messages)) = db.messages
                 /\ db'.messages[Len(db'.messages)].ID = ack.message_id
                 /\ db'.messages[Len(db'.messages)].Content
                        = SubSeq(p, SendMessageRequestPayloadHeader_size + 1, Len(p))
       /\ (ServiceStep /\ ReqIs(req', PULL_MESSAGES)
              /\ RespCode(resp') = RESP_PULL_MESSAGES)
          => LET recs == PulledMessage_unpack_stream(RespPayload(resp'))
                 rows == get_messages_for_client(db, ReqHeader(req').client_id)
             IN  /\ PulledMessage_unpack_stream_ok(RespPayload(resp'), 0)
                 /\ Len(recs) = Len(rows)
                 /\ \A i \in DOMAIN rows :
                        /\ recs[i].msg_id = rows[i].ID
                        /\ recs[i].content = rows[i].Content
                        /\ recs[i].msg_size = Len(rows[i].Content)
                 /\ ReqHeader(req').client_id \in DOMAIN accepted
                        => recs = accepted[ReqHeader(req').client_id]]_vars

\* a client pulled two messages: b"hi", which was sent declared as 0 bytes,
\* and b"h", which was sent declared as 5 bytes
C21_Witness ==
    /\ ReqIs(req, PULL_MESSAGES)
    /\ RespCode(resp) = RESP_PULL_MESSAGES
    /\ LET recs == PulledMessage_unpack_stream(RespPayload(resp))
       IN  /\ Len(recs) = 2
           /\ recs[1].content = ContentHi /\ recs[1].msg_size = 2
           /\ recs[2].content = ContentH /\ recs[2].msg_size = 1

\* ------------------------------------------------------------------------
\* PulledMessage.unpack_stream on its own: records are packed one after the
\* other, the buffer loses bytes at its end or not, and is decoded
\* ------------------------------------------------------------------------
PulledRecord(from_client_id, msg_id, msg_type, content) ==
    [from_client_id |-> from_client_id, msg_id |-> msg_id, msg_type |-> msg_type,
     msg_size |-> Len(content), content |-> content]

StreamRecords == {PulledRecord(Id(1), 1, TEXT_MESSAGE, ContentHi),
                  PulledRecord(Id(2), 2, SYM_KEY_REQUEST, <<>>),
                  PulledRecord(Id(1), 3, TEXT_MESSAGE, ContentH)}

\* b"".join(m.pack() for m in records)
RECURSIVE PackRecords(_)
PackRecords(records) ==
    IF records = <<>> THEN <<>>
    ELSE PulledMessage_pack(records[1].from_client_id, records[1].msg_id,
                            records[1].msg_type, records[1].msg_size, records[1].content)
         \o PackRecords(Tail(records))

\* a list of 0..MaxRecords records has been built
InitDecode ==
    /\ db = EmptyDb
    /\ now = 0
    /\ registered = {}
    /\ running = TRUE
    /\ req = NoReq
    /\ resp = None
    /\ sent = FALSE
    /\ accepted = [id \in IdPool |-> <<>>]
    /\ pulled = {}
    /\ calls = <<>>
    /\ stream = NoStream
    /\ \E k \in 0..MaxRecords : \E v \in [1..k -> StreamRecords] :
           codec = [stage |-> "built", kind |-> "PulledMessage stream", value |-> v,
                    buffer |-> <<>>, decoded |-> <<>>]

\* the records are packed into one buffer
pack_stream ==
    /\ codec.stage = "built"
    /\ codec' = [codec EXCEPT !.stage = "packed", !.buffer = PackRecords(codec.value)]
    /\ UNCHANGED <<db, now, registered, running, req, resp, sent, accepted, pulled, calls,
                 stream>>

\* how many bytes a buffer loses at its end: one or two bytes of a content,
\* one byte more, a header, a header and one byte
CutSizes(buffer) ==
    {n \in {1, 2, 3, PulledMessage_header_size, PulledMessage_header_size + 1} :
         n <= Len(buffer)}

\* the reader holds the buffer without its last n bytes
truncate ==
    /\ codec.stage = "packed"
    /\ \E n \in CutSizes(codec.buffer) :
           codec' = [codec EXCEPT !.stage = "cut",
                                  !.buffer = SubSeq(@, 1, Len(@) - n)]
    /\ UNCHANGED <<db, now, registered, running, req, resp, sent, accepted, pulled, calls,
                 stream>>

\* PulledMessage.unpack_stream(buffer): the list it returns, or struct.error
unpack_stream ==
    /\ codec.stage \in {"packed", "cut"}
    /\ codec' = IF PulledMessage_unpack_stream_ok(codec.buffer, 0)
                THEN [codec EXCEPT !.stage = "unpacked",
                                   !.decoded = PulledMessage_unpack_stream(codec.buffer)]
                ELSE [codec EXCEPT !.stage = "raised"]
    /\ UNCHANGED <<db, now, registered, running, req, resp, sent, accepted, pulled, calls,
                 stream>>

NextDecode == pack_stream \/ truncate \/ unpack_stream

SpecDecode == InitDecode /\ [][NextDecode]_vars

\* the buffer is the encoding of the first j records, for some j
WholeRecords ==
    \E j \in 0..Len(codec.value) : codec.buffer = PackRecords(SubSeq(codec.value, 1, j))

\* the buffer ends inside the header of a record
EndsInHeader ==
    \E j \in 1..Len(codec.value) :
        \E n \in 1..(PulledMessage_header_size - 1) :
            /\ Len(codec.buffer) = Len(PackRecords(SubSeq(codec.value, 1, j - 1))) + n
            /\ codec.buffer = SubSeq(PackRecords(codec.value), 1, Len(codec.buffer))

\* C22: the decoder applied to the encodings of k records, one after the
\* other, returns those k records in order; applied to a buffer that ends in
\* a partial record (inside a header, or inside a content that its header
\* declares longer) it raises and returns no record.
C22_DecoderFailsOnPartial ==
    /\ (codec.stage \in {"unpacked", "raised"} /\ codec.buffer = PackRecords(codec.value))
           => (codec.stage = "unpacked" /\ codec.decoded = codec.value)
    /\ (codec.stage \in {"unpacked", "raised"} /\ ~WholeRecords)
           => codec.stage = "raised"

\* what holds of the decoder: whole records come back as they were, and a
\* buffer that ends inside a header raises
DecoderAsCoded ==
    /\ (codec.stage \in {"unpacked", "raised"} /\ WholeRecords)
           => (codec.stage = "unpacked"
               /\ \E j \in 0..Len(codec.value) : codec.decoded = SubSeq(codec.value, 1, j))
    /\ (codec.stage \in {"unpacked", "raised"} /\ EndsInHeader)
           => codec.stage = "raised"
    /\ (codec.stage \in {"unpacked", "raised"} /\ ~WholeRecords /\ ~EndsInHeader)
           => (/\ codec.stage = "unpacked"
               /\ Len(codec.decoded[Len(codec.decoded)].content)
                      < codec.decoded[Len(codec.decoded)].msg_size)

\* ------------------------------------------------------------------------
\* Requests of every kind on one connection, well-formed and not, and the
\* ways in which the peer goes away
\* ------------------------------------------------------------------------
AllFrames ==
    {RegisterFrame(NoId, NameA, Key(0)), RegisterFrame(NoId, NameB, Key(7))}
    \cup {ClientsListFrame(c) : c \in IdPool}
    \cup {PublicKeyFrame(Id(1), t) : t \in IdPool}
    \cup {SendFrame(Id(1), Id(2), TEXT_MESSAGE, ContentHi)}
    \cup {PullFrame(c) : c \in IdPool}
    \cup MalformedFrames

ServeAll ==
    \E f \in AllFrames : \E uuid \in UuidsFor(f) :
        /\ WithinBounds(f)
        /\ _service_connection(1, f, uuid, TRUE, TRUE)
        /\ UNCHANGED stream

NextAll == _accept_connection(1) \/ ServeAll \/ Disconnect(1)

SpecAll == Init /\ [][NextAll]_vars

\* the read of the request ended in a response: bytes were read for the
\* header, and no recv raised ConnectionResetError
Answered(r) ==
    /\ r.hrecv.err # "reset"
    /\ ~(r.hrecv.err = "none" /\ r.hrecv.data = <<>>)
    /\ ~(ReqHeaderOk(r) /\ ReqHeader(r).payload_size > 0 /\ r.precv.err = "reset")

\* C23: whatever handle_request returns for a request it read is not empty:
\* at least the 7 bytes of a response header with the server version, whose
\* length field is the number of bytes after the header, none for Error; it
\* returns None only when the read gave no byte or the connection was reset;
\* so the connection of an answered request stays with the selector and only
\* a request that was not answered is taken for a disconnect.
C23_ResponseFramed ==
    [][ServiceStep =>
          /\ Answered(req') =>
                 /\ resp' # None
                 /\ RespFramed(resp')
                 /\ RespCode(resp') = RESP_ERROR => resp' = ErrorBytes
                 /\ sent'
                 /\ req'.conn \in registered'
          /\ ~Answered(req') => (resp' = None /\ req'.conn \notin registered')]_vars

\* a client list of one entry was returned, 7 + 271 bytes, and the
\* connection is still with the selector
C23_Witness ==
    /\ Answered(req)
    /\ RespCode(resp) = RESP_CLIENTS_LIST
    /\ Len(resp) = ResponseHeader_size + ClientInfo_size
    /\ sent
    /\ 1 \in registered

\* the messages of the store that are not for client_id
NotFor(d, client_id) == {m \in Range(d.messages) : m.ToClient # client_id}

\* C24: the records of a PullMessages response for header client id X are
\* messages the store held for X, as the store held them, and the messages
\* the request removes from the store are messages for X; a message for
\* another recipient is in no record and stays in the store, at its place
\* among the others, whether or not X is the id of a client record.
C24_OnlyOwnMessages ==
    [][(ServiceStep /\ ReqIs(req', PULL_MESSAGES)) =>
          LET X == ReqHeader(req').client_id
              recs == PulledMessage_unpack_stream(RespPayload(resp'))
              Other(m) == m.ToClient # X
          IN  /\ RespCode(resp') = RESP_PULL_MESSAGES
              /\ PulledMessage_unpack_stream_ok(RespPayload(resp'), 0)
              /\ \A i \in DOMAIN recs :
                     \E m \in Range(db.messages) :
                         /\ m.ToClient = X
                         /\ m.ID = recs[i].msg_id
                         /\ m.FromClient = recs[i].from_client_id
                         /\ m.Type = recs[i].msg_type
                         /\ m.Content = recs[i].content
              /\ \A m \in Range(db.messages) \ Range(db'.messages) : m.ToClient = X
              /\ \A m \in NotFor(db, X) : m.ID \notin PulledIds(resp')
              /\ SelectSeq(db'.messages, Other) = SelectSeq(db.messages, Other)
              /\ Range(db'.messages) \subseteq Range(db.messages)]_vars

\* a PullMessages request under an id that no client record has was
\* answered with no record while two messages for a registered client stayed
C24_Witness ==
    /\ ReqIs(req, PULL_MESSAGES)
    /\ ReqHeader(req).client_id \notin ClientIds(db)
    /\ resp = <<2, 56, 8, 0, 0, 0, 0>>
    /\ Len(db.messages) = 2
    /\ \A i \in DOMAIN db.messages : db.messages[i].ToClient \in ClientIds(db)

\* C25: in every reachable state every message of the store has as its
\* recipient the id of a client record of the store.
C25_RecipientRegistered ==
    \A i \in DOMAIN db.messages : db.messages[i].ToClient \in ClientIds(db)

\* a message was accepted for the one registered client while the other id
\* of the pool, to which messages are sent as well, has no record
C25_Witness ==
    /\ ReqIs(req, SEND_MESSAGE)
    /\ RespCode(resp) = RESP_MESSAGE_SENT
    /\ Len(db.clients) = 1
    /\ db.messages # <<>>
    /\ db.messages[Len(db.messages)].ToClient = db.clients[1].ID
    /\ IdPool \ ClientIds(db) # {}

\* C26: in every reachable state every message of the store has as its
\* sender the id of a client record of the store; a SendMessage request
\* whose header client id has no client record adds no message.
C26_SenderRegistered ==
    \A i \in DOMAIN db.messages : db.messages[i].FromClient \in ClientIds(db)

====
